---- MODULE Spec2Model ----
(***************************************************************************)
(* The P2P auction service (P2PAuctionService.js, required by index.js).   *)
(* Every `await` of the service is a point where other invocations, timer  *)
(* callbacks and the clock may interleave: an invocation is a record in    *)
(* the bag `procs` whose pc names the await it is suspended at, and one    *)
(* action runs the code from one await to the next.                        *)
(*                                                                         *)
(* Spec          the service once init() has returned                      *)
(* SpecStorage   Spec on a store whose puts may reject                     *)
(* SpecRestore   the service from init(), restoreAuctionTimers included    *)
(* SpecMonolith  the single-file program, whose getAuction and endAuction  *)
(*               call each other                                           *)
(* SpecRpc       the RPC object (rpc.js) of one connection                 *)
(***************************************************************************)
EXTENDS Integers, Sequences, FiniteSets, Bags, TLC

VARIABLES
    db,             \* this.db: key -> stored auction value, or NoRecord
    now,            \* Date.now(), in milliseconds
    auctionTimers,  \* this.auctionTimers: key -> timer handle, or NoTimer
    timeouts,       \* setTimeout callbacks scheduled and neither fired nor cleared
    nextHandle,     \* the next handle setTimeout returns
    nextId,         \* the next identifier crypto.randomUUID() returns
    procs,          \* invocations suspended at an await (a bag)
    calls,          \* number of invocations made by clients so far
    accepted,       \* history: key -> bids for which placeBid returned true
    last,           \* history: the invocation that completed last
    restore,        \* init(): where it is, and the read stream of restoreAuctionTimers
    rpc             \* the RPC object handleConnection made for one connection

vars == <<db, now, auctionTimers, timeouts, nextHandle, nextId, procs, calls,
          accepted, last, restore, rpc>>

-----------------------------------------------------------------------------
(* Bounds of the model *)

MaxAuctions == 2    \* records the store holds (identifiers are 1..MaxAuctions)
MaxCalls == 2       \* client invocations in one behaviour
MaxTicks == 2       \* seconds the clock advances
MaxAmount == 3      \* bid amounts are 1..MaxAmount
MaxDepth == 3       \* nested calls of endAuction followed in one invocation
MaxFrames == 3      \* frames a connection delivers
MaxRequests == 2    \* requests sent on a connection

(* Program constants *)

MsPerSecond == 1000

-----------------------------------------------------------------------------
(* Values *)

UnknownId == 0
Keys == 0..MaxAuctions
Amounts == 1..MaxAmount

\* <<bidderName, amount>>: the bids clients submit, two bidders taking turns
BidParams == { <<IF a % 2 = 0 THEN "Alice" ELSE "Bob", a>> : a \in Amounts }

\* <<item, startPrice, durationSeconds>>: one valid triple and one triple
\* for each parameter the console's validators would refuse
CreateParams == { <<"Vase", 1, 1>>, <<"", 1, 1>>, <<"Vase", 0, 1>>, <<"Vase", 1, 0>> }

NoRecord == [status |-> "absent"]
NoTimer == 0
NullName == "<null>"
AbsentName == "<absent>"
NullAmount == 0 - 1
AbsentAmount == 0 - 2

\* JavaScript values an invocation settles with
Resolved(kind, val) == [settled |-> "resolved", kind |-> kind, val |-> val]
Rejected(message) == [settled |-> "rejected", kind |-> "Error", val |-> message]
TypeErrorThrown == [settled |-> "rejected", kind |-> "TypeError",
                    val |-> "Cannot read properties of null (reading 'value')"]
NoResult == [settled |-> "none", kind |-> "none", val |-> ""]

Last(s) == s[Len(s)]

-----------------------------------------------------------------------------
(* The synchronous code of P2PAuctionService *)

\* NewAuction with the duration not converted to milliseconds
NewAuctionDurationInSeconds(item, startPrice, durationSeconds, t) ==
    [ item |-> item,
      startPrice |-> startPrice,
      startTime |-> t,
      endTime |-> t + durationSeconds,
      bids |-> <<>>,
      status |-> "active",
      winner |-> AbsentName,
      winningBid |-> AbsentAmount ]

\* createAuction: the record it builds
NewAuction(item, startPrice, durationSeconds, t) ==
    [ item |-> item,
      startPrice |-> startPrice,
      startTime |-> t,
      endTime |-> t + durationSeconds * MsPerSecond,
      bids |-> <<>>,
      status |-> "active",
      winner |-> AbsentName,
      winningBid |-> AbsentAmount ]

\* CLI.validators, on the values the console parsed
NonEmptyString(input) == input # ""
PositiveNumber(num) == ~(num <= 0)
PositiveInteger(num) == ~(num <= 0)

\* CLI.handleCreateAuction: the input it passes on to createAuction
ConsoleAccepts(params) ==
    NonEmptyString(params[1]) /\ PositiveNumber(params[2]) /\ PositiveInteger(params[3])

\* IsExpiredActive with the lazy-expiry branch missing
IsExpiredActiveNever(auction, t) == FALSE

\* getAuction: the lazy-expiry condition
IsExpiredActive(auction, t) ==
    auction.status = "active" /\ t > auction.endTime

\* PlaceBidError with the comparison to the highest bid off by one: a bid
\* equal to the highest bid passes
PlaceBidErrorAllowsEqual(auction, amount, t) ==
    IF auction.status # "active" THEN "Auction is not active"
    ELSE IF t > auction.endTime THEN "Auction has ended"
    ELSE IF amount <= auction.startPrice THEN "Bid too low"
    ELSE IF Len(auction.bids) > 0 /\ amount < Last(auction.bids).amount
         THEN "Bid must be higher than the current highest bid"
    ELSE "ok"

\* PlaceBidError with the comparison to startPrice off by one: a bid equal
\* to startPrice passes
PlaceBidErrorAllowsStartPrice(auction, amount, t) ==
    IF auction.status # "active" THEN "Auction is not active"
    ELSE IF t > auction.endTime THEN "Auction has ended"
    ELSE IF amount < auction.startPrice THEN "Bid too low"
    ELSE IF Len(auction.bids) > 0 /\ amount <= Last(auction.bids).amount
         THEN "Bid must be higher than the current highest bid"
    ELSE "ok"

\* placeBid: the checks on the value getAuction returned; "ok" when none throws
PlaceBidError(auction, amount, t) ==
    IF auction.status # "active" THEN "Auction is not active"
    ELSE IF t > auction.endTime THEN "Auction has ended"
    ELSE IF amount <= auction.startPrice THEN "Bid too low"
    ELSE IF Len(auction.bids) > 0 /\ amount <= Last(auction.bids).amount
         THEN "Bid must be higher than the current highest bid"
    ELSE "ok"

\* placeBid: the bid it appends to its copy of the record
PushBid(auction, bidderName, amount, t) ==
    [auction EXCEPT !.bids =
        Append(@, [bidderName |-> bidderName, amount |-> amount, time |-> t])]

\* EndIsNoop with the early return missing
EndIsNoopNever(auction) == FALSE

\* endAuction: the early return for a record that is not active
EndIsNoop(auction) == auction.status # "active"

\* endAuction: the transition applied to its copy of the record
Finalize(auction) ==
    IF Len(auction.bids) > 0
    THEN [auction EXCEPT !.status = "ended",
                         !.winner = Last(auction.bids).bidderName,
                         !.winningBid = Last(auction.bids).amount]
    ELSE [auction EXCEPT !.status = "ended",
                         !.winner = NullName,
                         !.winningBid = NullAmount]

-----------------------------------------------------------------------------
(* Invocations *)

\* op, pc, id and args are the call and where it is suspended; auction is its
\* local copy of the record; depth counts the endAuction calls nested in it
\* through getAuction (single-file program only); read (what its db.get
\* returned), origin (who made the call) and late (made on an Ended or expired
\* record) are history.
Proc(op, pc, id, args, origin, late) ==
    [op |-> op, pc |-> pc, id |-> id, args |-> args, auction |-> NoRecord,
     depth |-> 0, read |-> NoRecord, origin |-> origin, late |-> late]

Running == BagToSet(procs)
Suspend(p) == procs (+) SetToBag({p})
Resume(p, q) == (procs (-) SetToBag({p})) (+) SetToBag({q})
Settle(p) == procs (-) SetToBag({p})

\* the history record of an invocation that settles now: what its db.get
\* returned, whether that record was active with its deadline passed, and
\* what the invocation returned or threw
Completion(p, read, result) ==
    [op |-> p.op, id |-> p.id, args |-> p.args, origin |-> p.origin,
     late |-> p.late, read |-> read,
     expired |-> (read # NoRecord /\ read.status = "active" /\ now > read.endTime),
     result |-> result]

\* the record is Ended, or its deadline has passed, when the invocation is made
IsLate(id) ==
    /\ db[id] # NoRecord
    /\ (db[id].status = "ended" \/ now > db[id].endTime)

\* setAuctionTimer: schedules a callback and stores its handle
SetAuctionTimer(auctionId, duration) ==
    /\ timeouts' = timeouts \cup
          {[handle |-> nextHandle, id |-> auctionId, fireAt |-> now + duration]}
    /\ auctionTimers' = [auctionTimers EXCEPT ![auctionId] = nextHandle]
    /\ nextHandle' = nextHandle + 1

\* endAuction, after its put: clears and deletes the stored handle, if any
ClearAuctionTimer(auctionId) ==
    /\ timeouts' = {t \in timeouts : t.handle # auctionTimers[auctionId]}
    /\ auctionTimers' = [auctionTimers EXCEPT ![auctionId] = NoTimer]
    /\ UNCHANGED nextHandle

-----------------------------------------------------------------------------
(* RPC (rpc.js): the frames of one connection *)

\* a property a frame does not have, or the value undefined
Undefined == "<undefined>"

\* the object a frame is the JSON text of; params are not represented
Frame(method, id, result, error) ==
    [method |-> method, id |-> id, result |-> result, error |-> error]

\* correlation identifiers: those request() draws, and those of the peer
OwnIds == 1..MaxRequests
PeerIds == {MaxRequests + 1, MaxRequests + 2}

\* handleConnection: the methods it binds
Registered == {"createAuction", "placeBid", "getAuction", "endAuction"}

\* frames the peer sends: requests for a bound and for an unbound method,
\* and replies with a result or with an error
InboundFrames ==
    {Frame(m, i, Undefined, Undefined) : m \in {"getAuction", "listAuctions"}, i \in PeerIds}
        \cup {Frame(Undefined, i, "<auction>", Undefined) : i \in OwnIds}
        \cup {Frame(Undefined, i, Undefined, "Auction not found") : i \in OwnIds}

\* what a bound handler settles with: it returns a value, returns undefined
\* or throws
HandlerOutcomes ==
    { Resolved("auction", "<auction>"), Resolved("undefined", Undefined),
      Rejected("Auction not found") }

\* sendResponse with the error left out of the frame
SendErrorDropped(out, id, message) == out

\* sendResponse(id, {error: message})
SendError(out, id, message) == Append(out, Frame(Undefined, id, Undefined, message))

\* sendResponse(id, {result})
SendResult(out, id, result) == Append(out, Frame(Undefined, id, result, Undefined))

\* request's listener with the comparison of identifiers missing
MatchesAny(frame, id) == TRUE

\* request's listener: responseId === id
Matches(frame, id) == frame.id = id

\* request's listener: rejects when the frame has a truthy error, resolves
\* with the frame's result otherwise
SettleWith(frame) ==
    IF frame.error \notin {Undefined, ""}
    THEN Rejected(frame.error)
    ELSE Resolved("result", frame.result)

\* the RPC object once handleConnection has returned. delivered and returned
\* are history: the frames delivered so far, the handler that settled last.
RpcConnected ==
    [ open |-> TRUE,                 \* the connection has not closed
      inPeers |-> TRUE,              \* this.peers has the object
      delivered |-> <<>>,
      handling |-> {},               \* handleMessage calls awaiting their handler,
                                     \* by position of their frame in delivered
      out |-> <<>>,                  \* frames written to the connection
      pending |-> {},                \* requests whose listener is attached
      settled |-> [i \in OwnIds |-> NoResult],
      nextCorrelation |-> 1,
      returned |-> [id |-> 0, outcome |-> NoResult] ]

-----------------------------------------------------------------------------
\* The store is durable: the service starts on an empty store, or on the
\* store an earlier run left behind (here one auction created just before).
InitialStores ==
    { [k \in Keys |-> NoRecord],
      [k \in Keys |-> IF k = 1 THEN NewAuction("Vase", 1, 1, 0) ELSE NoRecord] }

\* restoreAuctionTimers: the keys it arms a timer for
RestoredKeys(store, t) ==
    {k \in Keys : store[k] # NoRecord /\ store[k].status = "active"
                                      /\ store[k].endTime > t}

\* the state once init() has returned
Init ==
    /\ db \in InitialStores
    /\ now = 0
    /\ auctionTimers = [k \in Keys |-> IF k \in RestoredKeys(db, now) THEN k ELSE NoTimer]
    /\ timeouts = {[handle |-> k, id |-> k, fireAt |-> now + (db[k].endTime - now)] :
                      k \in RestoredKeys(db, now)}
    /\ nextHandle = MaxAuctions + 1
    /\ nextId = Cardinality({k \in Keys : db[k] # NoRecord}) + 1
    /\ procs = EmptyBag
    /\ calls = 0
    /\ accepted = [k \in Keys |-> <<>>]
    /\ last = Completion(Proc("none", "none", UnknownId, <<>>, "none", FALSE),
                         NoRecord, NoResult)
    /\ restore = [pc |-> "done", snapshot |-> db, cursor |-> MaxAuctions]
    /\ rpc = RpcConnected

\* the clock advances
Tick ==
    /\ now < MaxTicks * MsPerSecond
    /\ now' = now + MsPerSecond
    /\ UNCHANGED <<db, auctionTimers, timeouts, nextHandle, nextId, procs, calls,
                   accepted, last, restore, rpc>>

\* identifiers a client can name: one no auction has, and those of the records
Callable == {UnknownId} \cup {k \in Keys : db[k] # NoRecord}

CanCall == calls < MaxCalls

\* createAuction up to `await this.db.put`. The console, started once init()
\* has returned, calls it with validated input; a peer calls it through the
\* handler handleConnection binds, with whatever parameters its request frame
\* carries.
CallCreateAuction ==
    /\ CanCall
    /\ nextId <= MaxAuctions
    /\ \E params \in CreateParams, origin \in {"console", "peer"} :
          /\ origin = "console" => (restore.pc = "done" /\ ConsoleAccepts(params))
          /\ procs' = Suspend(
                [Proc("createAuction", "put", nextId, params, origin, FALSE)
                    EXCEPT !.auction = NewAuction(params[1], params[2], params[3], now)])
    /\ nextId' = nextId + 1
    /\ calls' = calls + 1
    /\ UNCHANGED <<db, now, auctionTimers, timeouts, nextHandle, accepted, last,
                   restore, rpc>>

\* createAuction after its put: arms the timer and returns the identifier
CreateAuctionPut ==
    \E p \in Running :
        /\ p.op = "createAuction" /\ p.pc = "put"
        /\ db' = [db EXCEPT ![p.id] = p.auction]
        /\ SetAuctionTimer(p.id, p.args[3] * MsPerSecond)
        /\ procs' = Settle(p)
        /\ last' = Completion(p, NoRecord, Resolved("id", p.id))
        /\ UNCHANGED <<now, nextId, calls, accepted, restore, rpc>>

\* getAuction up to `await this.db.get`
CallGetAuction ==
    /\ CanCall
    /\ \E id \in Callable :
          procs' = Suspend(Proc("getAuction", "get", id, <<>>, "client", FALSE))
    /\ calls' = calls + 1
    /\ UNCHANGED <<db, now, auctionTimers, timeouts, nextHandle, nextId, accepted,
                   last, restore, rpc>>

\* getAuction after its get. For an expired active record it starts endAuction,
\* which suspends at its own get, and returns the `value` property of the
\* promise endAuction returned: undefined.
GetAuctionGet ==
    \E p \in Running :
        /\ p.op = "getAuction" /\ p.pc = "get"
        /\ IF db[p.id] = NoRecord
           THEN /\ procs' = Settle(p)
                /\ last' = Completion(p, db[p.id], Resolved("null", ""))
           ELSE IF IsExpiredActive(db[p.id], now)
           THEN /\ procs' = Settle(p) (+) SetToBag(
                       {Proc("endAuction", "get", p.id, <<>>, "lazy", FALSE)})
                /\ last' = Completion(p, db[p.id], Resolved("undefined", ""))
           ELSE /\ procs' = Settle(p)
                /\ last' = Completion(p, db[p.id], Resolved("auction", db[p.id]))
        /\ UNCHANGED <<db, now, auctionTimers, timeouts, nextHandle, nextId, calls,
                       accepted, restore, rpc>>

\* placeBid up to the `await this.db.get` of the getAuction it calls
CallPlaceBid ==
    /\ CanCall
    /\ \E id \in Callable, params \in BidParams :
          procs' = Suspend(Proc("placeBid", "get", id, params, "client", IsLate(id)))
    /\ calls' = calls + 1
    /\ UNCHANGED <<db, now, auctionTimers, timeouts, nextHandle, nextId, accepted,
                   last, restore, rpc>>

\* placeBid: the getAuction it awaits, after its get. A null or undefined
\* result makes placeBid throw 'Auction not found'.
PlaceBidGet ==
    \E p \in Running :
        /\ p.op = "placeBid" /\ p.pc = "get"
        /\ IF db[p.id] = NoRecord
           THEN /\ procs' = Settle(p)
                /\ last' = Completion(p, db[p.id], Rejected("Auction not found"))
           ELSE IF IsExpiredActive(db[p.id], now)
           THEN /\ procs' = Settle(p) (+) SetToBag(
                       {Proc("endAuction", "get", p.id, <<>>, "lazy", FALSE)})
                /\ last' = Completion(p, db[p.id], Rejected("Auction not found"))
           ELSE /\ procs' = Resume(p, [p EXCEPT !.pc = "check", !.auction = db[p.id],
                                                 !.read = db[p.id]])
                /\ UNCHANGED last
        /\ UNCHANGED <<db, now, auctionTimers, timeouts, nextHandle, nextId, calls,
                       accepted, restore, rpc>>

\* placeBid from the value getAuction returned up to `await this.db.put`
PlaceBidCheck ==
    \E p \in Running :
        /\ p.op = "placeBid" /\ p.pc = "check"
        /\ IF PlaceBidError(p.auction, p.args[2], now) # "ok"
           THEN /\ procs' = Settle(p)
                /\ last' = Completion(p, p.read,
                                      Rejected(PlaceBidError(p.auction, p.args[2], now)))
           ELSE /\ procs' = Resume(p, [p EXCEPT !.pc = "put",
                           !.auction = PushBid(p.auction, p.args[1], p.args[2], now)])
                /\ UNCHANGED last
        /\ UNCHANGED <<db, now, auctionTimers, timeouts, nextHandle, nextId, calls,
                       accepted, restore, rpc>>

\* placeBid after its put: returns true
PlaceBidPut ==
    \E p \in Running :
        /\ p.op = "placeBid" /\ p.pc = "put"
        /\ db' = [db EXCEPT ![p.id] = p.auction]
        /\ procs' = Settle(p)
        /\ accepted' = [accepted EXCEPT ![p.id] = Append(@, Last(p.auction.bids))]
        /\ last' = Completion(p, p.read, Resolved("boolean", TRUE))
        /\ UNCHANGED <<now, auctionTimers, timeouts, nextHandle, nextId, calls,
                       restore, rpc>>

\* endAuction up to `await this.db.get`, called by a client
CallEndAuction ==
    /\ CanCall
    /\ \E id \in Callable :
          procs' = Suspend(Proc("endAuction", "get", id, <<>>, "client", FALSE))
    /\ calls' = calls + 1
    /\ UNCHANGED <<db, now, auctionTimers, timeouts, nextHandle, nextId, accepted,
                   last, restore, rpc>>

\* a setTimeout callback runs: endAuction up to `await this.db.get`
TimerFire ==
    /\ \E t \in timeouts :
          /\ now >= t.fireAt
          /\ timeouts' = timeouts \ {t}
          /\ procs' = Suspend(Proc("endAuction", "get", t.id, <<>>, "timer", FALSE))
    /\ UNCHANGED <<db, now, auctionTimers, nextHandle, nextId, calls, accepted, last,
                   restore, rpc>>

\* endAuction from its get up to `await this.db.put`. `auctionNode.value` is
\* read before the null check, so a missing record throws a TypeError.
EndAuctionGet ==
    \E p \in Running :
        /\ p.op = "endAuction" /\ p.pc = "get"
        /\ IF db[p.id] = NoRecord
           THEN /\ procs' = Settle(p)
                /\ last' = Completion(p, db[p.id], TypeErrorThrown)
           ELSE IF EndIsNoop(db[p.id])
           THEN /\ procs' = Settle(p)
                /\ last' = Completion(p, db[p.id], Resolved("auction", db[p.id]))
           ELSE /\ procs' = Resume(p, [p EXCEPT !.pc = "put",
                                                 !.auction = Finalize(db[p.id]),
                                                 !.read = db[p.id]])
                /\ UNCHANGED last
        /\ UNCHANGED <<db, now, auctionTimers, timeouts, nextHandle, nextId, calls,
                       accepted, restore, rpc>>

\* endAuction after its put: clears the timer and returns the record
EndAuctionPut ==
    \E p \in Running :
        /\ p.op = "endAuction" /\ p.pc = "put"
        /\ db' = [db EXCEPT ![p.id] = p.auction]
        /\ ClearAuctionTimer(p.id)
        /\ procs' = Settle(p)
        /\ last' = Completion(p, p.read, Resolved("auction", p.auction))
        /\ UNCHANGED <<now, nextId, calls, accepted, restore, rpc>>

Next ==
    \/ Tick
    \/ CallCreateAuction
    \/ CreateAuctionPut
    \/ CallGetAuction
    \/ GetAuctionGet
    \/ CallPlaceBid
    \/ PlaceBidGet
    \/ PlaceBidCheck
    \/ PlaceBidPut
    \/ CallEndAuction
    \/ TimerFire
    \/ EndAuctionGet
    \/ EndAuctionPut

Spec == Init /\ [][Next]_vars

-----------------------------------------------------------------------------
(* init(), from `await discovery.flushed()` on. The connection handler is     *)
(* registered before, so peers' requests are served while init() waits and   *)
(* while restoreAuctionTimers scans; the read stream yields the records of   *)
(* the store as it was when the stream was created.                          *)

ActiveFuture == NewAuction("Vase", 1, 1, 0)
ActivePast == NewAuction("Vase", 1, 1, 0 - 2 * MsPerSecond)
EndedBefore == Finalize(ActivePast)

\* stores an earlier run may have left behind
PersistedStores ==
    { [k \in Keys |-> IF k = 1 THEN pair[1] ELSE IF k = 2 THEN pair[2] ELSE NoRecord] :
        pair \in { <<NoRecord, NoRecord>>, <<ActiveFuture, NoRecord>>,
                   <<ActivePast, EndedBefore>>, <<EndedBefore, ActiveFuture>> } }

\* RestoreArms without the test of the status
RestoreArmsAnyStatus(auction, t) == auction.endTime > t

\* restoreAuctionTimers: the test on a scanned value
RestoreArms(auction, t) == auction.status = "active" /\ auction.endTime > t

\* keys the read stream has still to yield
Unscanned == {k \in Keys : restore.snapshot[k] # NoRecord /\ k > restore.cursor}

\* the key the read stream yields next: keys come in order
NextScanned == CHOOSE k \in Unscanned : \A j \in Unscanned : k <= j

\* init() is at `await discovery.flushed()`
InitRestore ==
    /\ db \in PersistedStores
    /\ now = 0
    /\ auctionTimers = [k \in Keys |-> NoTimer]
    /\ timeouts = {}
    /\ nextHandle = 1
    /\ nextId = Cardinality({k \in Keys : db[k] # NoRecord}) + 1
    /\ procs = EmptyBag
    /\ calls = 0
    /\ accepted = [k \in Keys |-> <<>>]
    /\ last = Completion(Proc("none", "none", UnknownId, <<>>, "none", FALSE),
                         NoRecord, NoResult)
    /\ restore = [pc |-> "join", snapshot |-> [k \in Keys |-> NoRecord],
                  cursor |-> UnknownId]
    /\ rpc = RpcConnected

\* flushed() resolves: restoreAuctionTimers creates the read stream
RestoreOpen ==
    /\ restore.pc = "join"
    /\ restore' = [pc |-> "scan", snapshot |-> db, cursor |-> UnknownId]
    /\ UNCHANGED <<db, now, auctionTimers, timeouts, nextHandle, nextId, procs,
                   calls, accepted, last, rpc>>

\* one iteration of the `for await` of restoreAuctionTimers, or its end
RestoreStep ==
    /\ restore.pc = "scan"
    /\ IF Unscanned = {}
       THEN /\ restore' = [restore EXCEPT !.pc = "done"]
            /\ UNCHANGED <<auctionTimers, timeouts, nextHandle>>
       ELSE /\ restore' = [restore EXCEPT !.cursor = NextScanned]
            /\ IF RestoreArms(restore.snapshot[NextScanned], now)
               THEN SetAuctionTimer(NextScanned,
                                    restore.snapshot[NextScanned].endTime - now)
               ELSE UNCHANGED <<auctionTimers, timeouts, nextHandle>>
    /\ UNCHANGED <<db, now, nextId, procs, calls, accepted, last, rpc>>

NextRestore ==
    \/ Next
    \/ RestoreOpen
    \/ RestoreStep

SpecRestore == InitRestore /\ [][NextRestore]_vars

-----------------------------------------------------------------------------
(* The store may fail: `await this.db.put` rejects. No operation catches the *)
(* rejection, so the invocation rejects with it at that await and the code   *)
(* after the await does not run.                                             *)

PutError == "<error thrown by db.put>"

\* createAuction when its put rejects: no timer is armed
CreateAuctionPutFails ==
    \E p \in Running :
        /\ p.op = "createAuction" /\ p.pc = "put"
        /\ procs' = Settle(p)
        /\ last' = Completion(p, NoRecord, Rejected(PutError))
        /\ UNCHANGED <<db, now, auctionTimers, timeouts, nextHandle, nextId, calls,
                       accepted, restore, rpc>>

\* placeBid when its put rejects: the bid was pushed on its copy only
PlaceBidPutFails ==
    \E p \in Running :
        /\ p.op = "placeBid" /\ p.pc = "put"
        /\ procs' = Settle(p)
        /\ last' = Completion(p, p.read, Rejected(PutError))
        /\ UNCHANGED <<db, now, auctionTimers, timeouts, nextHandle, nextId, calls,
                       accepted, restore, rpc>>

\* endAuction when its put rejects: the timer handle is neither cleared nor
\* deleted. Nothing awaits the endAuction a timer callback or getAuction
\* started: its rejection is left to the runtime.
EndAuctionPutFails ==
    \E p \in Running :
        /\ p.op = "endAuction" /\ p.pc = "put"
        /\ procs' = Settle(p)
        /\ last' = Completion(p, p.read, Rejected(PutError))
        /\ UNCHANGED <<db, now, auctionTimers, timeouts, nextHandle, nextId, calls,
                       accepted, restore, rpc>>

NextStorage ==
    \/ Next
    \/ CreateAuctionPutFails
    \/ PlaceBidPutFails
    \/ EndAuctionPutFails

SpecStorage == Init /\ [][NextStorage]_vars

-----------------------------------------------------------------------------
(* The single-file program (the service, RPC, CLI and main in one file). It  *)
(* differs from P2PAuctionService.js in getAuction, which returns            *)
(* `this.endAuction(auctionId)` for an expired active record, and in         *)
(* endAuction, which reads the record with `await this.getAuction(           *)
(* auctionId)`: each of the two calls the other. An invocation is suspended  *)
(* at the db.get of the innermost getAuction; depth counts the endAuction    *)
(* calls nested below it. The rest of the code is the same, and its actions  *)
(* are shared.                                                               *)

\* the innermost getAuction saw an expired active record: it calls endAuction,
\* which calls getAuction, which suspends at db.get again
NestEndAuction(p) == [p EXCEPT !.depth = @ + 1]

\* getAuction after the db.get of the innermost getAuction. A record that is
\* not expired-active is returned through every nested endAuction (which
\* returns a record that is not active as it is) and getAuction.
MonoGetAuctionGet ==
    \E p \in Running :
        /\ p.op = "getAuction" /\ p.pc = "get"
        /\ IF db[p.id] = NoRecord
           THEN /\ procs' = Settle(p)
                /\ last' = Completion(p, db[p.id],
                               IF p.depth = 0 THEN Resolved("null", "")
                               ELSE Rejected("Auction not found"))
           ELSE IF IsExpiredActive(db[p.id], now)
           THEN /\ p.depth < MaxDepth
                /\ procs' = Resume(p, NestEndAuction(p))
                /\ UNCHANGED last
           ELSE /\ procs' = Settle(p)
                /\ last' = Completion(p, db[p.id], Resolved("auction", db[p.id]))
        /\ UNCHANGED <<db, now, auctionTimers, timeouts, nextHandle, nextId, calls,
                       accepted, restore, rpc>>

\* placeBid: the getAuction it awaits, after the db.get of the innermost
\* getAuction
MonoPlaceBidGet ==
    \E p \in Running :
        /\ p.op = "placeBid" /\ p.pc = "get"
        /\ IF db[p.id] = NoRecord
           THEN /\ procs' = Settle(p)
                /\ last' = Completion(p, db[p.id], Rejected("Auction not found"))
           ELSE IF IsExpiredActive(db[p.id], now)
           THEN /\ p.depth < MaxDepth
                /\ procs' = Resume(p, NestEndAuction(p))
                /\ UNCHANGED last
           ELSE /\ procs' = Resume(p, [p EXCEPT !.pc = "check", !.auction = db[p.id],
                                                 !.read = db[p.id], !.depth = 0])
                /\ UNCHANGED last
        /\ UNCHANGED <<db, now, auctionTimers, timeouts, nextHandle, nextId, calls,
                       accepted, restore, rpc>>

\* endAuction: the getAuction it awaits, after the db.get of the innermost
\* getAuction, up to `await this.db.put`
MonoEndAuctionGet ==
    \E p \in Running :
        /\ p.op = "endAuction" /\ p.pc = "get"
        /\ IF db[p.id] = NoRecord
           THEN /\ procs' = Settle(p)
                /\ last' = Completion(p, db[p.id], Rejected("Auction not found"))
           ELSE IF IsExpiredActive(db[p.id], now)
           THEN /\ p.depth < MaxDepth
                /\ procs' = Resume(p, NestEndAuction(p))
                /\ UNCHANGED last
           ELSE IF EndIsNoop(db[p.id])
           THEN /\ procs' = Settle(p)
                /\ last' = Completion(p, db[p.id], Resolved("auction", db[p.id]))
           ELSE /\ procs' = Resume(p, [p EXCEPT !.pc = "put",
                                                 !.auction = Finalize(db[p.id]),
                                                 !.read = db[p.id], !.depth = 0])
                /\ UNCHANGED last
        /\ UNCHANGED <<db, now, auctionTimers, timeouts, nextHandle, nextId, calls,
                       accepted, restore, rpc>>

NextMonolith ==
    \/ Tick
    \/ CallCreateAuction
    \/ CreateAuctionPut
    \/ CallGetAuction
    \/ MonoGetAuctionGet
    \/ CallPlaceBid
    \/ MonoPlaceBidGet
    \/ PlaceBidCheck
    \/ PlaceBidPut
    \/ CallEndAuction
    \/ TimerFire
    \/ MonoEndAuctionGet
    \/ EndAuctionPut

SpecMonolith == Init /\ [][NextMonolith]_vars

-----------------------------------------------------------------------------
(* RPC (rpc.js) on one connection. The handlers are the functions respond()  *)
(* registered: to handleMessage each is an async function that returns a     *)
(* value or throws, so what a handler settles with is drawn from             *)
(* HandlerOutcomes and the service's own state is left alone here.           *)

serviceVars == <<db, now, auctionTimers, timeouts, nextHandle, nextId, procs, calls,
                 accepted, last, restore>>

\* the connection emits 'data': handleMessage runs up to `await handler(...)`,
\* or replies at once when the method has no handler; then the listener of
\* each pending request looks at the frame
RpcDeliver ==
    /\ rpc.open
    /\ Len(rpc.delivered) < MaxFrames
    /\ \E frame \in InboundFrames :
          LET n == Len(rpc.delivered) + 1
              matched == {i \in rpc.pending : Matches(frame, i)}
          IN rpc' = [rpc EXCEPT
                 !.delivered = Append(@, frame),
                 !.handling = IF frame.method \in Registered THEN @ \cup {n} ELSE @,
                 !.out = IF frame.method \in Registered THEN @
                         ELSE SendError(@, frame.id, "Method not found"),
                 !.pending = @ \ matched,
                 !.settled = [i \in OwnIds |->
                                 IF i \in matched THEN SettleWith(frame) ELSE @[i]]]
    /\ UNCHANGED serviceVars

\* handleMessage after `await handler(...params)`: the try or the catch
RpcHandlerReturns ==
    /\ \E n \in rpc.handling, outcome \in HandlerOutcomes :
          rpc' = [rpc EXCEPT
                 !.handling = @ \ {n},
                 !.returned = [id |-> rpc.delivered[n].id, outcome |-> outcome],
                 !.out = IF outcome.settled = "resolved"
                         THEN SendResult(@, rpc.delivered[n].id, outcome.val)
                         ELSE SendError(@, rpc.delivered[n].id, outcome.val)]
    /\ UNCHANGED serviceVars

\* request: writes the frame and attaches its listener
RpcRequest ==
    /\ rpc.open
    /\ rpc.nextCorrelation <= MaxRequests
    /\ rpc' = [rpc EXCEPT
              !.out = Append(@, Frame("getAuction", rpc.nextCorrelation,
                                      Undefined, Undefined)),
              !.pending = @ \cup {rpc.nextCorrelation},
              !.nextCorrelation = @ + 1]
    /\ UNCHANGED serviceVars

\* the connection closes: handleConnection's listener removes the object from
\* this.peers; rpc.js has no listener for 'close'
RpcClose ==
    /\ rpc.open
    /\ rpc' = [rpc EXCEPT !.open = FALSE, !.inPeers = FALSE]
    /\ UNCHANGED serviceVars

NextRpc ==
    \/ RpcDeliver
    \/ RpcHandlerReturns
    \/ RpcRequest
    \/ RpcClose

SpecRpc == Init /\ [][NextRpc]_vars

-----------------------------------------------------------------------------
(* Notions the claims are stated in *)

Stored(k) == db[k] # NoRecord
Range(seq) == {seq[i] : i \in 1..Len(seq)}

\* invocations of placeBid or endAuction on k that have read the record and
\* whose put has not completed
Mutating(k) ==
    {p \in Running : p.id = k /\ p.op \in {"placeBid", "endAuction"}
                              /\ p.pc \in {"check", "put"}}
MutationsInFlight(k) == BagCardinality([p \in Mutating(k) |-> procs[p]])

\* no invocation on k is suspended
Quiescent(k) == \A p \in Running : p.id # k

\* p takes a step
Steps(p) == CopiesIn(p, procs') < CopiesIn(p, procs)

StrictlyIncreasing(auction) ==
    \A i \in 1..Len(auction.bids) :
        /\ auction.bids[i].amount > auction.startPrice
        /\ i > 1 => auction.bids[i].amount > auction.bids[i - 1].amount

-----------------------------------------------------------------------------
(* C1..C10 *)

\* C1: no lost update. Once every invocation on an Active auction has
\* completed, each bid for which placeBid returned true is in the persisted
\* bids sequence.
C1_NoLostUpdate ==
    \A k \in Keys :
        (Stored(k) /\ db[k].status = "active" /\ Quiescent(k))
            => Range(accepted[k]) \subseteq Range(db[k].bids)

\* C2: mutations of one identifier are serialized. At most one placeBid or
\* endAuction (called, lazy or fired by the timer) on an identifier is between
\* its read of the record and the completion of its put.
C2_MutationsSerialized ==
    \A k \in Keys : MutationsInFlight(k) <= 1

\* C3: a placeBid made once now > endTime, or once the persisted status is
\* Ended, fails with 'Auction has ended' or 'Auction is not active'.
C3_LateBidFailsExpiredOrNotActive ==
    (last.op = "placeBid" /\ last.late)
        => /\ last.result.settled = "rejected"
           /\ last.result.val \in {"Auction has ended", "Auction is not active"}

\* C4: getAuction on a stored record that is Active with now > endTime
\* returns the Ended record the End transition produces, with winner and
\* winningBid taken from the last bid (null without bids).
C4_GetReturnsEndedRecord ==
    (last.op = "getAuction" /\ last.expired)
        => last.result = Resolved("auction", Finalize(last.read))

\* C5: the persisted status is never reversed. Once a record with status
\* Ended is persisted, every later persisted value of that identifier is that
\* same record.
C5_EndedIsFinal ==
    [][\A k \in Keys : (Stored(k) /\ db[k].status = "ended") => db'[k] = db[k]]_vars

\* C6: when an auction is Ended, winner and winningBid are the bidder and
\* amount of the last bid for which placeBid returned true, and both are null
\* exactly when no bid was accepted.
C6_WinnerIsLastAccepted ==
    \A k \in Keys :
        (Stored(k) /\ db[k].status = "ended")
            => IF accepted[k] = <<>>
               THEN db[k].winner = NullName /\ db[k].winningBid = NullAmount
               ELSE /\ db[k].winner = Last(accepted[k]).bidderName
                    /\ db[k].winningBid = Last(accepted[k]).amount

\* C7: the bids of every persisted record are strictly increasing in amount,
\* and every amount strictly exceeds startPrice.
C7_BidsStrictlyIncreasing ==
    \A k \in Keys : Stored(k) => StrictlyIncreasing(db[k])

\* C7 witness: a persisted record holds two bids.
C7_TwoBidsStored ==
    \E k \in Keys : Stored(k) /\ Len(db[k].bids) >= 2

\* C8: placeBid and endAuction on an identifier without a record fail with
\* 'Auction not found'.
C8_UnknownIdIsNotFound ==
    (last.op \in {"placeBid", "endAuction"} /\ last.origin = "client"
                                            /\ last.read = NoRecord)
        => last.result = Rejected("Auction not found")

\* C9: a createAuction whose item is empty, whose startPrice is not > 0 or
\* whose durationSeconds is not a positive integer fails, persists no record
\* and arms no timer.
C9_InvalidCreateFails ==
    (last.op = "createAuction" /\ ~ConsoleAccepts(last.args))
        => /\ last.result.settled = "rejected"
           /\ ~Stored(last.id)
           /\ auctionTimers[last.id] = NoTimer

\* C10: endAuction is idempotent. On a record that is already Ended it
\* returns the stored record and writes nothing; and the record an endAuction
\* returns is the Ended record the store then holds, so a second endAuction
\* in sequence returns the identical record.
C10_EndIsIdempotent ==
    [][ /\ \A p \in Running :
              (/\ p.op = "endAuction" /\ p.pc = "get"
               /\ Stored(p.id) /\ db[p.id].status = "ended"
               /\ Steps(p))
                  => /\ BagToSet(procs') \subseteq Running
                     /\ last' = Completion(p, db[p.id], Resolved("auction", db[p.id]))
                     /\ UNCHANGED <<db, auctionTimers, timeouts>>
        /\ \A p \in Running :
              (p.op = "endAuction" /\ p.pc = "put" /\ Steps(p))
                  => /\ last'.result = Resolved("auction", db'[p.id])
                     /\ db'[p.id].status = "ended" ]_vars

\* C10 witness: an endAuction called on an already Ended record has returned it.
C10_EndOnEndedReturned ==
    /\ last.op = "endAuction" /\ last.origin = "client"
    /\ last.read # NoRecord /\ last.read.status = "ended"
    /\ last.result = Resolved("auction", last.read)
    /\ db[last.id] = last.read

-----------------------------------------------------------------------------
(* C11..C20 *)

\* the largest amount among the bids of a record that has bids
HighestBid(auction) ==
    CHOOSE a \in {auction.bids[i].amount : i \in 1..Len(auction.bids)} :
        \A i \in 1..Len(auction.bids) : auction.bids[i].amount <= a

\* C11: on an Active auction whose deadline has not passed, a placeBid whose
\* amount is <= startPrice fails with 'Bid too low' whatever the bids are, and
\* one whose amount does not exceed the highest bid of the record fails with
\* 'Bid must be higher than the current highest bid' (or 'Bid too low'); in
\* both cases nothing is written.
C11_InvalidBidRejected ==
    [][\A p \in Running :
          (/\ p.op = "placeBid" /\ p.pc = "check" /\ Steps(p)
           /\ p.auction.status = "active" /\ now <= p.auction.endTime)
              => /\ p.args[2] <= p.auction.startPrice
                      => /\ last' = Completion(p, p.read, Rejected("Bid too low"))
                         /\ db' = db
                 /\ (/\ p.args[2] > p.auction.startPrice
                     /\ Len(p.auction.bids) > 0
                     /\ p.args[2] <= HighestBid(p.auction))
                      => /\ last' = Completion(p, p.read,
                               Rejected("Bid must be higher than the current highest bid"))
                         /\ db' = db ]_vars

\* C11 witness: a placeBid on an Active record that holds a bid was refused
\* for not exceeding that bid, and the record is stored as it was read.
C11_BidNotHigherRefused ==
    /\ last.op = "placeBid"
    /\ last.result = Rejected("Bid must be higher than the current highest bid")
    /\ last.read.status = "active" /\ Len(last.read.bids) > 0
    /\ db[last.id] = last.read

\* the callbacks pending for one identifier
PendingTimers(pending, k) == {t \in pending : t.id = k}

\* C12: a createAuction with valid parameters persists a record that is
\* Active, has no bids and has endTime - startTime = durationSeconds * 1000,
\* and schedules exactly one timer, for the new identifier and with that
\* delay; a getAuction that reads such a record before its deadline returns
\* it as stored.
C12_CreateThenGet ==
    [][ /\ \A p \in Running :
              (p.op = "createAuction" /\ Steps(p) /\ ConsoleAccepts(p.args))
                  => /\ db'[p.id].status = "active"
                     /\ db'[p.id].bids = <<>>
                     /\ db'[p.id].endTime - db'[p.id].startTime = p.args[3] * 1000
                     /\ Cardinality(timeouts' \ timeouts) = 1
                     /\ Cardinality(PendingTimers(timeouts', p.id)) = 1
                     /\ \A t \in PendingTimers(timeouts', p.id) :
                            /\ t.fireAt = now + p.args[3] * 1000
                            /\ auctionTimers'[p.id] = t.handle
        /\ \A p \in Running :
              (/\ p.op = "getAuction" /\ Steps(p) /\ Stored(p.id)
               /\ db[p.id].status = "active" /\ db[p.id].bids = <<>>
               /\ now <= db[p.id].endTime)
                  => last' = Completion(p, db[p.id], Resolved("auction", db[p.id])) ]_vars

\* C12 witness: a getAuction made at the time of a createAuction of this run
\* returned the record just created, Active and without bids.
C12_GetAfterCreateReturned ==
    /\ last.op = "getAuction" /\ last.result.kind = "auction"
    /\ last.result.val.status = "active" /\ last.result.val.bids = <<>>
    /\ last.result.val.startTime = now
    /\ \E p \in CreateParams :
          /\ ConsoleAccepts(p)
          /\ last.result.val = NewAuction(p[1], p[2], p[3], now)
    /\ auctionTimers[last.id] > MaxAuctions

\* C16: when the timer callback and a called endAuction interleave on one
\* Active auction, only one of them finalizes the record and writes it: the
\* two are never both between their read of the Active record and their put.
C16_TimerAndEndOneTransition ==
    \A p, q \in Running :
        (/\ p.op = "endAuction" /\ q.op = "endAuction" /\ p.id = q.id
         /\ p.origin = "timer" /\ q.origin = "client")
            => ~(p.pc = "put" /\ q.pc = "put")

\* C17: a placeBid or endAuction (called, lazy or fired by the timer) whose
\* put fails rejects and leaves the store, the accepted bids and the timers
\* as they were, and one whose put succeeds stores exactly its record; a
\* record left Active by a failed End is ended on the next access after its
\* deadline, because getAuction starts endAuction for every Active record
\* read with now > endTime.
C17_FailedPutChangesNothing ==
    [][ /\ \A p \in Running :
              (p.op \in {"placeBid", "endAuction"} /\ p.pc = "put" /\ Steps(p))
                  => \/ /\ last'.result = Rejected(PutError)
                        /\ UNCHANGED <<db, accepted, auctionTimers, timeouts>>
                     \/ /\ last'.result.settled = "resolved"
                        /\ db' = [db EXCEPT ![p.id] = p.auction]
        /\ \A p \in Running :
              (/\ p.op \in {"getAuction", "placeBid"} /\ p.pc = "get" /\ Steps(p)
               /\ Stored(p.id) /\ db[p.id].status = "active"
               /\ now > db[p.id].endTime)
                  => \E q \in BagToSet(procs') :
                        /\ q.op = "endAuction" /\ q.id = p.id /\ q.pc = "get"
                        /\ CopiesIn(q, procs') > CopiesIn(q, procs) ]_vars

\* C17 witness: the endAuction a timer callback started has failed at its
\* put, and the record is stored Active as that endAuction read it.
C17_TimerEndFailed ==
    /\ last.op = "endAuction" /\ last.origin = "timer"
    /\ last.result = Rejected(PutError)
    /\ last.read.status = "active"
    /\ db[last.id] = last.read

\* C18: restoreAuctionTimers writes nothing; for each record it scans it arms
\* exactly one timer, with delay endTime - now, when the record is Active with
\* endTime > now, and arms nothing when the record is Ended or its deadline
\* has passed. Once it has completed, every scanned record that is still
\* stored as scanned and is Active with endTime > now has a callback pending
\* at endTime, and no scanned record that was Ended or past its deadline has
\* a timer.
C18_RestoreArmsActiveOnly ==
    [][ /\ (restore.pc = "scan" /\ restore' # restore)
              => /\ db' = db
                 /\ IF restore'.pc = "done"
                    THEN UNCHANGED <<auctionTimers, timeouts>>
                    ELSE LET k == restore'.cursor
                             v == restore.snapshot[k]
                         IN IF v.status = "active" /\ v.endTime > now
                            THEN /\ Cardinality(timeouts' \ timeouts) = 1
                                 /\ timeouts \subseteq timeouts'
                                 /\ \A t \in timeouts' \ timeouts :
                                        /\ t.id = k
                                        /\ t.fireAt - now = v.endTime - now
                                        /\ auctionTimers'[k] = t.handle
                            ELSE UNCHANGED <<auctionTimers, timeouts>>
        /\ restore'.pc = "done"
              => \A k \in Keys :
                    restore'.snapshot[k] # NoRecord
                        => LET v == restore'.snapshot[k]
                           IN /\ (/\ db'[k] = v /\ v.status = "active"
                                  /\ v.endTime > now')
                                    => \E t \in PendingTimers(timeouts', k) :
                                          t.fireAt = v.endTime
                              /\ (v.status = "ended" \/ v.endTime < 0)
                                    => /\ auctionTimers'[k] = NoTimer
                                       /\ PendingTimers(timeouts', k) = {} ]_vars

\* C18 witness: restoreAuctionTimers has completed on a store holding an
\* Ended record and an Active record whose deadline is ahead; the Active one
\* has its timer and the Ended one is stored as it was, without timer.
C18_RestoredMixedStore ==
    /\ restore.pc = "done" /\ calls = 0
    /\ \E j, k \in Keys :
          /\ restore.snapshot[j] # NoRecord /\ restore.snapshot[k] # NoRecord
          /\ db[j] = restore.snapshot[j] /\ db[j].status = "ended"
          /\ auctionTimers[j] = NoTimer
          /\ db[k].status = "active" /\ db[k].endTime > now
          /\ auctionTimers[k] # NoTimer

\* C19: in every state at most one expiry callback is pending for an
\* identifier: arming a timer for an identifier that has one pending
\* replaces it.
C19_OnePendingTimerPerId ==
    \A k \in Keys : Cardinality(PendingTimers(timeouts, k)) <= 1

\* C20: every getAuction, placeBid and endAuction (the timer's included)
\* settles once its gets and puts complete: for an Active record read with
\* now > endTime, getAuction and endAuction do not call each other again and
\* again, so the nesting of an invocation stays below the depth followed.
C20_GetAndEndNestingBounded ==
    \A p \in Running : p.depth < MaxDepth

\* replies written with an identifier, frames delivered with it, and
\* handleMessage calls on such frames still awaiting their handler
Replies(r, id) ==
    Cardinality({j \in 1..Len(r.out) : r.out[j].method = Undefined /\ r.out[j].id = id})
Inbound(r, id) ==
    Cardinality({n \in 1..Len(r.delivered) : r.delivered[n].id = id})
InFlight(r, id) ==
    Cardinality({n \in r.handling : r.delivered[n].id = id})

\* C13: every request frame delivered gets exactly one reply frame with its
\* id. A frame for an unbound method is answered at once with {id, error:
\* "Method not found"}; a frame for a bound method is answered when its
\* handler settles, with {id, result} when it returned and {id, error:
\* message} when it threw; so for each id the replies written and the
\* handlers still running add up to the frames delivered.
C13_OneReplyPerRequest ==
    [][ /\ \A id \in PeerIds :
              Replies(rpc', id) + InFlight(rpc', id) = Inbound(rpc', id)
        /\ Len(rpc'.delivered) > Len(rpc.delivered)
              => LET f == Last(rpc'.delivered)
                 IN f.method # Undefined
                      => IF f.method \in Registered
                         THEN /\ rpc'.out = rpc.out
                              /\ rpc'.handling = rpc.handling \cup {Len(rpc'.delivered)}
                         ELSE /\ rpc'.out = Append(rpc.out,
                                     Frame(Undefined, f.id, Undefined, "Method not found"))
                              /\ rpc'.handling = rpc.handling
        /\ rpc'.handling # rpc.handling /\ rpc'.handling \subseteq rpc.handling
              => \E n \in rpc.handling :
                    /\ rpc'.handling = rpc.handling \ {n}
                    /\ rpc'.returned.id = rpc.delivered[n].id
                    /\ rpc'.out = Append(rpc.out,
                          IF rpc'.returned.outcome.settled = "resolved"
                          THEN Frame(Undefined, rpc.delivered[n].id,
                                     rpc'.returned.outcome.val, Undefined)
                          ELSE Frame(Undefined, rpc.delivered[n].id, Undefined,
                                     rpc'.returned.outcome.val)) ]_vars

\* C13 witness: three request frames were delivered and answered, one with
\* a result, one with the error its handler threw, one with "Method not found".
C13_ThreeKindsAnswered ==
    /\ rpc.handling = {}
    /\ \E i, j, k \in PeerIds :
          /\ Frame(Undefined, i, "<auction>", Undefined) \in Range(rpc.out)
          /\ Frame(Undefined, j, Undefined, "Auction not found") \in Range(rpc.out)
          /\ Frame(Undefined, k, Undefined, "Method not found") \in Range(rpc.out)

\* C14: a pending request is settled only by the delivery of a frame with its
\* own id, with that frame's result or error, and is then no longer pending;
\* a frame with another id, and every other step, leaves it as it is.
C14_SettledByOwnReplyOnly ==
    [][ /\ Len(rpc'.delivered) > Len(rpc.delivered)
              => LET f == Last(rpc'.delivered)
                 IN \A i \in OwnIds :
                       IF i \in rpc.pending /\ f.id = i
                       THEN /\ i \notin rpc'.pending
                            /\ rpc'.settled[i] =
                                  IF f.error # Undefined THEN Rejected(f.error)
                                  ELSE Resolved("result", f.result)
                       ELSE /\ rpc'.settled[i] = rpc.settled[i]
                            /\ i \in rpc'.pending <=> i \in rpc.pending
        /\ Len(rpc'.delivered) = Len(rpc.delivered)
              => /\ rpc'.settled = rpc.settled
                 /\ rpc.pending \subseteq rpc'.pending ]_vars

\* C14 witness: two requests were pending together; the reply to the second
\* arrived first, and each request settled with its own reply.
C14_RepliesOutOfOrder ==
    \E a, b \in 1..Len(rpc.delivered) :
        /\ a < b
        /\ rpc.delivered[a].id = 2 /\ rpc.delivered[b].id = 1
        /\ \A c \in 1..Len(rpc.delivered) :
              /\ rpc.delivered[c].id = 1 => c = b
              /\ rpc.delivered[c].id = 2 => c = a
        /\ rpc.settled[2] = Resolved("result", "<auction>")
        /\ rpc.settled[1] = Rejected("Auction not found")
        /\ rpc.pending = {}

\* C15: once the connection has closed no request is pending: each request
\* that was awaiting its reply has failed.
C15_CloseFailsPending ==
    ~rpc.open
        => /\ rpc.pending = {}
           /\ \A i \in OwnIds :
                 i < rpc.nextCorrelation => rpc.settled[i] # NoResult

-----------------------------------------------------------------------------
(* C21..C22 *)

\* C21: a delivered frame that is a response (it has no method) makes the
\* RPC object write no frame, so that a request and its reply are the only
\* frames of an exchange.
C21_ResponseFrameNotAnswered ==
    [][ Len(rpc'.delivered) > Len(rpc.delivered)
            => (Last(rpc'.delivered).method = Undefined => rpc'.out = rpc.out) ]_vars

\* C22: every stored record that is Active with endTime > now has an expiry
\* callback pending, so that the record is Ended in the end without another
\* access, whatever placeBid and endAuction did before the deadline.
C22_ActiveHasPendingTimer ==
    \A k \in Keys :
        (Stored(k) /\ db[k].status = "active" /\ db[k].endTime > now)
            => PendingTimers(timeouts, k) # {}
====
